---- MODULE Spec2Model ----
(***************************************************************************)
(* Model of CoreInstance (src/core/instance.ts): the container state       *)
(* machine and the three request entry points remoteRequest, eventRequest  *)
(* and httpRequest with their authenticate / activate / invoke / release   *)
(* lifecycle.                                                              *)
(*                                                                         *)
(* Each caller is one invocation of an async method.  A caller's pc names  *)
(* the place in the method body where it currently stands; external calls  *)
(* (auth, hooks, handlers) complete with an outcome chosen by \E.          *)
(***************************************************************************)
EXTENDS Integers, Sequences, FiniteSets, TLC

\* ---------------------------------------------------------------- bounds
NumCallers == 2
MaxRecords == 2

Callers == 1..NumCallers

\* ------------------------------------------------- registry (Metadata.*)
\* The application name given to the constructor.
application == "app"

\* Metadata.services in registration order, with the optional hooks.
ServiceIds == <<"s1", "s2", "s3">>
HasActivate(sid) == sid \in {"s1", "s3"}
HasRelease(sid) == sid \in {"s1", "s3"}

\* Identifiers the container resolves (container.get(id) is defined).
ContainerIds == {"s1", "s2", "s3"}
ContainerGet(id) == id \in ContainerIds

\* Metadata.methods, keyed by "service.method".
MethodIds == {<<"s1", "m1">>, <<"s1", "onEvent">>, <<"s3", "onEvent">>,
              <<"s1", "get">>, <<"s3", "getDm">>, <<"sx", "m1">>,
              <<"sx", "get">>}

\* ------------------------------------------------------------- requests
None == "-"

Request(kind, app, service, method, source, resource, action, object, nrec, verb, dm) ==
    [kind |-> kind, application |-> app, service |-> service, method |-> method,
     source |-> source, resource |-> resource, action |-> action,
     object |-> object, nrec |-> nrec, httpMethod |-> verb, domainModel |-> dm]

NoRequest == Request(None, None, None, None, None, None, None, None, 0, None, None)

RemoteRequests ==
    { Request("remote", a, s, m, None, None, None, None, 0, None, None) :
        a \in {"app", "other"}, s \in {"s1", "sx"}, m \in {"m1", "nomethod"} }

EventRequests ==
    { Request("event", None, None, None, "q", res, act, "o", n, None, None) :
        res \in {"orders", "ord", "none", "broken", "gone"}, act \in {"put", "del"},
        n \in 0..MaxRecords }

HttpRequests ==
    { Request("http", None, None, None, None, res, None, None, 0, "GET", dm) :
        res \in {"/a", "/t", "/x", "/none"}, dm \in {None, "dm"} }

\* Metadata.events: the targets registered under "{source} {resource}".
EventTarget(service, method, actionFilter, objectFilter, adapter) ==
    [service |-> service, method |-> method, actionFilter |-> actionFilter,
     objectFilter |-> objectFilter, adapter |-> adapter]

EventRoutes == {<<"q", "orders">>, <<"q", "legacy">>, <<"q", "broken">>, <<"q", "gone">>}

MetadataEvents(route) ==
    CASE route = <<"q", "orders">> ->
            << EventTarget("s1", "onEvent", "*", "*", FALSE),
               EventTarget("s3", "onEvent", "put", "*", TRUE) >>
      [] route = <<"q", "legacy">> ->
            << EventTarget("s3", "onEvent", "put", "o", FALSE) >>
      [] route = <<"q", "broken">> ->
            << EventTarget("s1", "onEvent", "put", "*", FALSE),
               EventTarget("sx", "onEvent", "del", "x", FALSE) >>
      [] route = <<"q", "gone">> ->
            << EventTarget("sx", "onEvent", "*", "*", FALSE) >>
      [] OTHER -> << >>

\* config.resources: the per-deployment resource aliases.
ConfigResources(resource) ==
    CASE resource = "ord" -> "legacy"
      [] resource = "orders" -> "legacy"
      [] OTHER -> "undefined"

\* Utils.wildcardMatch restricted to the patterns of this registry: "*"
\* matches every value, any other pattern matches itself only.
wildcardMatch(pattern, value) == pattern = "*" \/ pattern = value

\* Metadata.routes: the handler registered under
\* "{httpMethod} {resource}[:{domainModel}]", with its method metadata.
HttpTarget(service, method, code, adapter, contentType) ==
    [service |-> service, method |-> method, code |-> code,
     adapter |-> adapter, contentType |-> contentType]

HttpRoutes ==
    {<<"GET", "/a", None>>, <<"GET", "/a", "dm">>, <<"GET", "/t", None>>, <<"GET", "/x", None>>}

MetadataRoutes(route) ==
    CASE route = <<"GET", "/a", None>> -> HttpTarget("s1", "get", 200, FALSE, None)
      [] route = <<"GET", "/a", "dm">> -> HttpTarget("s3", "getDm", 201, TRUE, "HttpResponse")
      [] route = <<"GET", "/t", None>> -> HttpTarget("s1", "getText", 202, FALSE, "text/plain")
      [] OTHER -> HttpTarget("sx", "get", 200, FALSE, None)

\* method.bindings of the method a route names: for each declared
\* parameter the name of its binder, None when it has none.
Bindings(route) ==
    CASE route = <<"GET", "/a", None>> -> <<"path", None, "context">>
      [] route = <<"GET", "/a", "dm">> -> <<"body">>
      [] route = <<"GET", "/t", None>> -> << None >>
      [] OTHER -> << >>

\* req.pathParameters and req.queryStringParameters, None when the request
\* has none.
PathParameters(r) == IF r.resource = "/a" THEN None ELSE "id=1"
QueryParameters(r) == IF r.domainModel = "dm" THEN "q=1" ELSE None

\* ------------------------------------------------------- errors, results
Error(kind, wrapped) == [kind |-> kind, wrapped |-> wrapped]
NoError == Error(None, FALSE)
StateError == Error("StateError", FALSE)
NotFound == Error("NotFound", FALSE)
AuthError == Error("AuthError", FALSE)
ActivationError == Error("ActivationError", FALSE)
HandlerError == Error("HandlerError", FALSE)

\* InternalServerError.wrap(e): an internal error whose cause is e.
Wrap(e) == [e EXCEPT !.wrapped = TRUE]

\* What a handler may return.
Values == {"v1", "v2"}
\* A handler of an http route may also return nothing.
Undefined == "undefined"
HandlerValues(kind) == IF kind = "http" THEN Values \cup {Undefined} ELSE Values
\* The TypeError of reading a property of undefined.
TypeError == Error("TypeError", FALSE)
\* What an event handler returns for the k-th record of req.records.
RecordData(k) == IF k % 2 = 1 THEN "v1" ELSE "v2"

\* A value handed back to the caller (or carried towards it).
Value(shape, data, statusCode, contentType, token, status, returns) ==
    [shape |-> shape, data |-> data, statusCode |-> statusCode,
     contentType |-> contentType, token |-> token, status |-> status,
     returns |-> returns]
NoValue == Value(None, None, 0, None, None, None, <<>>)
\* The handler's own return value, untouched.
RawValue(v) == Value("raw", v, 0, None, None, None, <<>>)
\* EventResult {status, returns}; status None is null.
EventResult(status, returns) == Value("event", None, 0, None, None, status, returns)
\* One entry of EventResult.returns; error NoError is null, data None is null.
ReturnEntry(service, method, error, data) ==
    [service |-> service, method |-> method, error |-> error, data |-> data]

\* The settled promise of a call.
Outcome(type, err, value) == [type |-> type, err |-> err, value |-> value]
Unsettled == Outcome("pending", NoError, NoValue)
Rejected(e) == Outcome("rejected", e, NoValue)
Returned(v) == Outcome("returned", NoError, v)

\* Per-call locals: route the resolved resource key, t target index, i
\* service index of the hook loop, k record index, pend the completion the
\* inner try block settled on (delivered once the finally blocks have run).
Locals(route, t, i, k, pend) == [route |-> route, t |-> t, i |-> i, k |-> k, pend |-> pend]
NoLocals == Locals(None, 0, 0, 0, Unsettled)

\* The Context an auth call may produce.
Context(renewed, token) == [renewed |-> renewed, token |-> token]
NoContext == Context(FALSE, None)
Contexts(kind) ==
    IF kind = "http"
      THEN {Context(FALSE, None), Context(FALSE, "tok"), Context(TRUE, "tok"),
            Context(TRUE, None)}
      ELSE IF kind = "event"
             THEN {Context(FALSE, None), Context(FALSE, "tok")}
             ELSE {Context(FALSE, None)}

\* What went wrong during a call, by event target index (0 outside events):
\* auth the targets whose auth call threw, act those whose activation pass
\* threw, hnd those whose handler threw, rel those with a throwing release
\* hook; ret is the value the handler returned last; args is what the callee
\* of an http request was called with.
Args(callee, bound, context, request, path, query, argv) ==
    [callee |-> callee, bound |-> bound, context |-> context, request |-> request,
     path |-> path, query |-> query, argv |-> argv]
NoArgs == Args(None, None, NoContext, NoRequest, None, None, <<>>)
History(auth, act, hnd, rel, ret, args) ==
    [auth |-> auth, act |-> act, hnd |-> hnd, rel |-> rel, ret |-> ret, args |-> args]
NoHistory == History({}, {}, {}, {}, None, NoArgs)

\* One external call made on behalf of a request: e the callee, t the event
\* target index (0 outside events), s the service, k the record index.
Ev(e, t, s, k) == [e |-> e, t |-> t, s |-> s, k |-> k]

\* ----------------------------------------------------------------- state
VARIABLES
    istate,    \* CoreInstance.istate
    life,      \* result of the last register / publish / prepare call
    pc,        \* per caller: position in the request method
    req,       \* per caller: the request passed in
    loc,       \* per caller: loop indexes and the pending completion
    ctx,       \* per caller: the Context returned by the auth call
    result,    \* per caller: the EventResult under construction
    outcome,   \* per caller: how the call's promise settled
    trace,     \* per caller: external calls made by the current call
    hist       \* per caller: which external calls of the current call threw

vars == <<istate, life, pc, req, loc, ctx, result, outcome, trace, hist>>

Init ==
    /\ istate = "Pending"
    /\ life = [op |-> None, res |-> None]
    /\ pc = [c \in Callers |-> "idle"]
    /\ req = [c \in Callers |-> NoRequest]
    /\ loc = [c \in Callers |-> NoLocals]
    /\ ctx = [c \in Callers |-> NoContext]
    /\ result = [c \in Callers |-> NoValue]
    /\ outcome = [c \in Callers |-> Unsettled]
    /\ trace = [c \in Callers |-> <<>>]
    /\ hist = [c \in Callers |-> NoHistory]

callerVars == <<pc, req, loc, ctx, result, outcome, trace, hist>>

\* ------------------------------------------------------- the environment
\* Results are taken one at a time: a new call (of any method) is issued
\* only after the result of the previous completed call has been taken.
\* Calls in flight are not held up by this.
NoLife == [op |-> None, res |-> None]
Taken == life = NoLife /\ \A d \in Callers : pc[d] # "done"

\* ------------------------------------------ register / publish / prepare
\* Faulty variant: the guard also lets a prepared, idle container pass.
GuardPendingOrReady(s) == s \in {"Pending", "Ready"}

\* Faulty variant: the guard is missing.
GuardPendingMissing(s) == TRUE

\* The guard of register, publish and prepare.
GuardPending(s) == s = "Pending"

register ==
    /\ Taken
    /\ life' = [op |-> "register",
                res |-> IF ~GuardPending(istate) THEN "StateError" ELSE "ok"]
    /\ UNCHANGED <<istate, callerVars>>

publish ==
    /\ Taken
    /\ life' = [op |-> "publish",
                res |-> IF ~GuardPending(istate) THEN "StateError" ELSE "ok"]
    /\ UNCHANGED <<istate, callerVars>>

\* cfgOk: the Configuration and Security entries are the defaults or services.
prepare ==
    /\ Taken
    /\ \E cfgOk \in BOOLEAN :
         IF ~GuardPending(istate)
           THEN life' = [op |-> "prepare", res |-> "StateError"] /\ UNCHANGED istate
           ELSE IF ~cfgOk
                  THEN life' = [op |-> "prepare", res |-> "ConfigError"] /\ UNCHANGED istate
                  ELSE life' = [op |-> "prepare", res |-> "ok"] /\ istate' = "Ready"
    /\ UNCHANGED callerVars

\* The result of register / publish / prepare is taken.
taken ==
    /\ life # NoLife
    /\ life' = NoLife
    /\ UNCHANGED <<istate, callerVars>>

\* ------------------------------------------------ entry of a request call
\* Faulty variant: a call is also admitted while another is being handled.
GuardReadyOrBusy(s) == s \in {"Ready", "Busy"}

\* Faulty variant: the guard only keeps out an unprepared container.
GuardNotPending(s) == s # "Pending"

\* The guard of the three entry points.
GuardReady(s) == s = "Ready"

\* Faulty variant: the guard stands inside the try block, so the finally
\* block runs for a rejected call as well.
GuardFailStateFinally(s) == "Ready"

\* The state a call rejected by the guard leaves behind: the guard throws
\* before the try block, so no finally runs.
GuardFailState(s) == s

\* Faulty variant: an admitted call goes straight to Busy.
AdmittedStateBusy == "Busy"

\* The state an admitted call sets before its try block.
AdmittedState == "Reserved"

\* First statements of remoteRequest / eventRequest / httpRequest: guard,
\* then istate = Reserved and into the try block.
enter(c, kind, requests) ==
    /\ pc[c] = "idle"
    /\ Taken
    /\ IF ~GuardReady(istate)
         THEN /\ istate' = GuardFailState(istate)
              /\ pc' = [pc EXCEPT ![c] = "done"]
              /\ req' = [req EXCEPT ![c] = [NoRequest EXCEPT !.kind = kind]]
              /\ outcome' = [outcome EXCEPT ![c] = Rejected(StateError)]
         ELSE /\ istate' = AdmittedState
              /\ pc' = [pc EXCEPT ![c] = "resolve"]
              /\ \E r \in requests : req' = [req EXCEPT ![c] = r]
              /\ outcome' = [outcome EXCEPT ![c] = Unsettled]
    /\ UNCHANGED <<life, loc, ctx, result, trace, hist>>

remoteRequest(c) == enter(c, "remote", RemoteRequests)
eventRequest(c) == enter(c, "event", EventRequests)
httpRequest(c) == enter(c, "http", HttpRequests)

\* Faulty variant: the outer finally block is missing.
FinallyStateKept(out) == "Busy"

\* Faulty variant: the reset follows the try block instead of standing in
\* a finally block, so a throwing call skips it.
FinallyStateOnReturn(out) == IF out.type = "returned" THEN "Ready" ELSE "Busy"

\* The state the outer finally block leaves behind.
FinallyState(out) == "Ready"

\* The call leaves its outer try block with completion out: the outer
\* finally resets istate and the promise settles.
finish(c, out) ==
    /\ istate' = FinallyState(out)
    /\ pc' = [pc EXCEPT ![c] = "done"]
    /\ outcome' = [outcome EXCEPT ![c] = out]

\* Faulty variant: the assignment of Busy is missing.
ResolvedStateReserved == "Reserved"

\* The state set once the route is resolved.
ResolvedState == "Busy"

\* ------------------------------------------------------ route resolution
\* Faulty variant: the application of the request is not compared.
AppMismatchNever(r) == FALSE

\* req.application !== this.application
AppMismatch(r) == r.application # application

\* Faulty variant: the method metadata is not looked up.
MethodMissingNever(r) == FALSE

\* if (!metadata)
MethodMissing(r) == <<r.service, r.method>> \notin MethodIds

remoteResolve(c) ==
    /\ pc[c] = "resolve" /\ req[c].kind = "remote"
    /\ LET r == req[c] IN
         IF AppMismatch(r)
           THEN finish(c, Rejected(NotFound)) /\ UNCHANGED trace
           ELSE IF ~ContainerGet(r.service) \/ MethodMissing(r)
                  THEN /\ finish(c, Rejected(NotFound))
                       /\ trace' = [trace EXCEPT ![c] = Append(@, Ev("get", 0, r.service, 0))]
                  ELSE /\ trace' = [trace EXCEPT ![c] =
                                      @ \o <<Ev("get", 0, r.service, 0), Ev("auth", 0, None, 0)>>]
                       /\ istate' = ResolvedState
                          /\ pc' = [pc EXCEPT ![c] = "auth"]
                          /\ UNCHANGED outcome
    /\ UNCHANGED <<life, req, loc, ctx, result, hist>>

\* The route an event request resolves to: the direct key, else the alias key.
EventRoute(r) ==
    IF <<r.source, r.resource>> \in EventRoutes
      THEN <<r.source, r.resource>>
      ELSE <<r.source, ConfigResources(r.resource)>>

\* Faulty variant: an unregistered route counts as an empty registration list.
RouteMissingNever(route) == FALSE

\* if (!metadatas)
RouteMissing(route) == route \notin EventRoutes

eventResolve(c) ==
    /\ pc[c] = "resolve" /\ req[c].kind = "event"
    /\ LET route == EventRoute(req[c]) IN
         IF RouteMissing(route)
           THEN finish(c, Rejected(NotFound)) /\ UNCHANGED <<loc, result>>
           ELSE /\ result' = [result EXCEPT ![c] = EventResult(None, <<>>)]
                /\ istate' = ResolvedState
                /\ loc' = [loc EXCEPT ![c] = Locals(route[2], 1, 1, 1, Unsettled)]
                /\ pc' = [pc EXCEPT ![c] = "target"]
                /\ UNCHANGED outcome
    /\ UNCHANGED <<life, req, ctx, trace, hist>>

\* Faulty variant: the domain model is left out of the key.
HttpRouteNoSuffix(r) == <<r.httpMethod, r.resource, None>>

\* The route key of an http request: "{httpMethod} {resource}", with
\* ":{domainModel}" when the content type declares one.
HttpRoute(r) == <<r.httpMethod, r.resource, r.domainModel>>

httpResolve(c) ==
    /\ pc[c] = "resolve" /\ req[c].kind = "http"
    /\ LET route == HttpRoute(req[c]) IN
         IF route \notin HttpRoutes
           THEN finish(c, Rejected(NotFound)) /\ UNCHANGED trace
           ELSE IF ~ContainerGet(MetadataRoutes(route).service)
                  THEN /\ finish(c, Rejected(NotFound))
                       /\ trace' = [trace EXCEPT ![c] =
                                      Append(@, Ev("get", 0, MetadataRoutes(route).service, 0))]
                  ELSE /\ trace' = [trace EXCEPT ![c] =
                                      @ \o <<Ev("get", 0, MetadataRoutes(route).service, 0),
                                             Ev("auth", 0, None, 0)>>]
                       /\ istate' = ResolvedState
                       /\ pc' = [pc EXCEPT ![c] = "auth"]
                       /\ UNCHANGED outcome
    /\ UNCHANGED <<life, req, loc, ctx, result, hist>>

\* ------------------------------------------------------- event fan-out
\* The registrations of the resolved event route.
Targets(c) == MetadataEvents(<<req[c].source, loc[c].route>>)
Target(c) == Targets(c)[loc[c].t]

\* Faulty variant: the status is overwritten.
StatusOverwrite(status, s) == s

\* result.status || s
StatusOr(status, s) == IF status # None THEN status ELSE s

\* Faulty variant: every second registration is left out.
NextTargetSkips(t) == t + 2

\* for (let target of metadatas): the registration after the t-th.
NextTarget(t) == t + 1

\* Head of the loop over the registrations, and the statements after it.
eventTarget(c) ==
    /\ pc[c] = "target"
    /\ UNCHANGED hist
    /\ IF loc[c].t > Len(Targets(c))
         THEN /\ finish(c, Returned([result[c] EXCEPT !.status = StatusOr(@, "NOP")]))
              /\ result' = [result EXCEPT ![c].status = StatusOr(@, "NOP")]
              /\ UNCHANGED <<loc, trace>>
         ELSE IF ~ContainerGet(Target(c).service)
                THEN /\ finish(c, Rejected(NotFound))
                     /\ trace' = [trace EXCEPT ![c] =
                                    Append(@, Ev("get", loc[c].t, Target(c).service, 0))]
                     /\ UNCHANGED <<loc, result>>
                ELSE IF \/ ~wildcardMatch(Target(c).actionFilter, req[c].action)
                        \/ ~wildcardMatch(Target(c).objectFilter, req[c].object)
                       THEN /\ loc' = [loc EXCEPT ![c].t = NextTarget(@)]
                            /\ trace' = [trace EXCEPT ![c] =
                                           Append(@, Ev("get", loc[c].t, Target(c).service, 0))]
                            /\ UNCHANGED <<istate, pc, outcome, result>>
                       ELSE /\ pc' = [pc EXCEPT ![c] = "auth"]
                            /\ trace' = [trace EXCEPT ![c] =
                                           @ \o <<Ev("get", loc[c].t, Target(c).service, 0),
                                                  Ev("auth", loc[c].t, None, 0)>>]
                            /\ UNCHANGED <<istate, outcome, loc, result>>
    /\ UNCHANGED <<life, req, ctx>>

\* ------------------------------------------------------------ lifecycle
\* security.remoteAuth / eventAuth / httpAuth returns or throws.  The await
\* stands outside the inner try: a failure leaves through the outer finally.
\* Faulty variant: a failed auth call is not noticed.
AuthNeverThrows(ok) == FALSE

\* The awaited auth call rejects when the security provider throws.
AuthThrows(ok) == ~ok

\* Faulty variant: the auth call stands inside the inner try block.
AuthInsideTry == TRUE

\* The awaited auth call stands before the inner try block: its error is
\* met by no catch and no inner finally.
AuthInTry == FALSE

authReturn(c) ==
    /\ pc[c] = "auth"
    /\ \E ok \in BOOLEAN :
         /\ hist' = IF ok THEN hist ELSE [hist EXCEPT ![c].auth = @ \cup {loc[c].t}]
         /\ IF AuthThrows(ok)
              THEN IF AuthInTry
                     THEN /\ pc' = [pc EXCEPT ![c] = "release"]
                          /\ loc' = [loc EXCEPT ![c].i = 1, ![c].pend = Rejected(AuthError)]
                          /\ UNCHANGED <<istate, outcome, ctx>>
                     ELSE /\ finish(c, Rejected(AuthError))
                          /\ UNCHANGED <<ctx, loc>>
              ELSE /\ \E context \in Contexts(req[c].kind) :
                        ctx' = [ctx EXCEPT ![c] = context]
                   /\ pc' = [pc EXCEPT ![c] = "activate"]
                   /\ loc' = [loc EXCEPT ![c].i = 1]
                   /\ UNCHANGED <<istate, outcome>>
    /\ UNCHANGED <<life, req, result, trace>>

\* Faulty variant: the catch block of httpRequest rethrows the error as it
\* caught it.
CatchCompletionRaw(kind, e) ==
    IF kind = "event" THEN Unsettled ELSE Rejected(e)

\* Faulty variant: the catch block of eventRequest rethrows as that of
\* httpRequest does.
CatchCompletionRethrow(kind, e) ==
    IF kind = "remote" THEN Rejected(e) ELSE Rejected(Wrap(e))

\* The completion a catch block leaves with; that of eventRequest completes
\* normally.
CatchCompletion(kind, e) ==
    IF kind = "remote" THEN Rejected(e)
    ELSE IF kind = "http" THEN Rejected(Wrap(e))
    ELSE Unsettled

\* The EventResult after the catch block of eventRequest.
CatchResult(res, target, e) ==
    [res EXCEPT !.status = "FAILED",
                !.returns = Append(@, ReturnEntry(target.service, target.method, Wrap(e), None))]

\* Faulty variant: the catch block stands inside the record loop.
AfterCatchInvoke == "invoke"

\* Where a catch block leaves to: the finally block with the release pass.
AfterCatch == "release"

\* Where the inner try block goes when a statement in it throws e: the catch
\* block, then the finally block (the release pass).
caught(c, e) ==
    /\ pc' = [pc EXCEPT ![c] = AfterCatch]
    /\ loc' = [loc EXCEPT ![c].i = 1, ![c].pend = CatchCompletion(req[c].kind, e)]
    /\ result' = IF req[c].kind = "event"
                   THEN [result EXCEPT ![c] = CatchResult(@, Target(c), e)]
                   ELSE result

\* Where control goes after activate(ctx) returned.
AfterActivate == "invoke"

\* Faulty variant: activate(ctx) drops a hook's error as release(ctx) does.
ActivateNeverThrows(ok) == FALSE

\* The catch block of activate(ctx) rethrows what the hook threw.
ActivateThrows(ok) == ~ok

\* Faulty variant: only the first registered service is activated.
ActivateOnlyFirst(i) == FALSE

\* The loop of activate(ctx) goes over every service of Metadata.services.
ActivateContinues(i) == i < Len(ServiceIds)

\* One iteration of the loop of activate(ctx), with its catch and rethrow.
activate(c) ==
    /\ pc[c] = "activate"
    /\ LET sid == ServiceIds[loc[c].i] IN
         \E ok \in (IF HasActivate(sid) THEN BOOLEAN ELSE {TRUE}) :
           /\ trace' = IF HasActivate(sid)
                         THEN [trace EXCEPT ![c] = Append(@, Ev("activate", loc[c].t, sid, 0))]
                         ELSE trace
           /\ hist' = IF ok THEN hist ELSE [hist EXCEPT ![c].act = @ \cup {loc[c].t}]
           /\ IF ActivateThrows(ok)
                THEN caught(c, ActivationError)
                ELSE /\ IF ActivateContinues(loc[c].i)
                          THEN /\ loc' = [loc EXCEPT ![c].i = @ + 1]
                               /\ UNCHANGED pc
                          ELSE /\ loc' = [loc EXCEPT ![c].i = 1, ![c].k = 1]
                               /\ pc' = [pc EXCEPT ![c] = AfterActivate]
                     /\ UNCHANGED result
    /\ UNCHANGED <<istate, life, req, ctx, outcome>>

\* The service and the callee the resolved route names.
HandlerService(c) ==
    IF req[c].kind = "remote" THEN req[c].service
    ELSE IF req[c].kind = "http" THEN MetadataRoutes(HttpRoute(req[c])).service
    ELSE Target(c).service

HasAdapter(c) ==
    IF req[c].kind = "remote" THEN FALSE
    ELSE IF req[c].kind = "http" THEN MetadataRoutes(HttpRoute(req[c])).adapter
    ELSE Target(c).adapter

\* Faulty variant: the records are taken from the last to the first.
RecordAtReversed(k, n) == n + 1 - k

\* for (let record of req.records): the record of the k-th iteration.
RecordAt(k, n) == k

\* A binder: a pure extraction from (ctx, req).
Binder(name, context, r) ==
    IF name = "path" THEN r.resource
    ELSE IF name = "context" THEN context.token
    ELSE r.domainModel

\* x || {}
OrEmpty(x) == IF x = None THEN "{}" ELSE x

\* Faulty variant: the binders are invoked whether or not the route has an
\* adapter.
BinderCallsAlways(adapter, bindings) ==
    SelectSeq([i \in 1..Len(bindings) |-> Ev("binder", 0, bindings[i], i)],
              LAMBDA ev : ev.s # None)

\* The binder calls of httpRequest, in order: none when the route declares
\* an adapter; else one for every declared parameter that has a binder.
BinderCalls(adapter, bindings) ==
    IF adapter THEN << >>
    ELSE SelectSeq([i \in 1..Len(bindings) |-> Ev("binder", 0, bindings[i], i)],
                   LAMBDA ev : ev.s # None)

\* The positional argument list built from method.bindings.
ArgList(bindings, context, r) ==
    [i \in 1..Len(bindings) |->
        IF bindings[i] # None THEN Binder(bindings[i], context, r) ELSE Undefined]

\* What the callee of an http request is called with: the adapter with the
\* bound handler, ctx, req and the two parameter maps, or the handler with
\* the argument list.
HttpArgs(c) ==
    LET route == HttpRoute(req[c])
        target == MetadataRoutes(route)
    IN IF target.adapter
         THEN Args("adapter", <<target.service, target.method>>, ctx[c], req[c],
                   OrEmpty(PathParameters(req[c])), OrEmpty(QueryParameters(req[c])), <<>>)
         ELSE Args("handler", None, NoContext, NoRequest, None, None,
                   ArgList(Bindings(route), ctx[c], req[c]))

\* The handler (or the adapter holding it) is called; for events this is the
\* head of the loop over req.records.  For an http request the binders are
\* called first, synchronously.
invoke(c) ==
    /\ pc[c] = "invoke"
    /\ IF req[c].kind = "event" /\ loc[c].k > req[c].nrec
         THEN /\ pc' = [pc EXCEPT ![c] = "release"]
              /\ UNCHANGED <<loc, trace, hist>>
         ELSE /\ pc' = [pc EXCEPT ![c] = "handler"]
              /\ trace' = [trace EXCEPT ![c] =
                             (IF req[c].kind = "http"
                                THEN @ \o BinderCalls(HasAdapter(c),
                                                      Bindings(HttpRoute(req[c])))
                                ELSE @)
                             \o << Ev(IF HasAdapter(c) THEN "adapter" ELSE "handler",
                                      loc[c].t, HandlerService(c),
                                      IF req[c].kind = "event"
                                        THEN RecordAt(loc[c].k, req[c].nrec)
                                        ELSE loc[c].k) >>]
              /\ hist' = IF req[c].kind = "http"
                           THEN [hist EXCEPT ![c].args = HttpArgs(c)]
                           ELSE hist
              /\ UNCHANGED loc
    /\ UNCHANGED <<istate, life, req, ctx, result, outcome>>

\* Faulty variant: every return value is wrapped.
NormalizeAlways(v, target) ==
    Value("http", v, target.code,
          IF target.contentType # None THEN target.contentType ELSE "application/json",
          None, None, <<>>)

\* Response normalization of httpRequest.
Normalize(v, target) ==
    IF target.contentType # "HttpResponse"
      THEN Value("http", v, target.code,
                 IF target.contentType # None THEN target.contentType ELSE "application/json",
                 None, None, <<>>)
      ELSE RawValue(v)

\* Faulty variant: the token is copied whether or not it was renewed.
InjectTokenAlways(response, context) == [response EXCEPT !.token = context.token]

\* The Token header of a renewed auth token.
InjectToken(response, context) ==
    IF context.renewed /\ context.token # None
      THEN [response EXCEPT !.token = context.token]
      ELSE response

\* result.headers of a raw response that is undefined throws a TypeError.
InjectThrows(response, context) ==
    /\ context.renewed /\ context.token # None
    /\ response.shape = "raw" /\ response.data = Undefined

\* The completion of the inner try block when the handler returned v: the
\* normalized response, or what the catch block makes of a TypeError.
TryCompletion(c, v) ==
    IF req[c].kind = "http"
      THEN LET response == Normalize(v, MetadataRoutes(HttpRoute(req[c]))) IN
           IF InjectThrows(response, ctx[c])
             THEN CatchCompletion("http", TypeError)
             ELSE Returned(InjectToken(response, ctx[c]))
      ELSE Returned(RawValue(v))

\* The EventResult after a record was handled.
RecordResult(res, target, v) ==
    [res EXCEPT !.status = StatusOr(@, "OK"),
                !.returns = Append(@, ReturnEntry(target.service, target.method, NoError, v))]

\* Faulty variant: the activation pass stands inside the record loop.
AfterRecordActivate == "activate"

\* Where the record loop of eventRequest goes after a handled record.
AfterRecord == "invoke"

\* The handler (or adapter) returns v or throws.
handlerReturn(c) ==
    /\ pc[c] = "handler"
    /\ \E ok \in BOOLEAN :
         IF ~ok
           THEN /\ caught(c, HandlerError)
                /\ hist' = [hist EXCEPT ![c].hnd = @ \cup {loc[c].t}]
           ELSE IF req[c].kind = "event"
                  THEN /\ result' = [result EXCEPT ![c] =
                                       RecordResult(@, Target(c),
                                                    RecordData(RecordAt(loc[c].k, req[c].nrec)))]
                       /\ hist' = [hist EXCEPT ![c].ret =
                                     RecordData(RecordAt(loc[c].k, req[c].nrec))]
                       /\ loc' = [loc EXCEPT ![c].k = @ + 1]
                       /\ pc' = [pc EXCEPT ![c] = AfterRecord]
                  ELSE \E v \in HandlerValues(req[c].kind) :
                         /\ loc' = [loc EXCEPT ![c].i = 1, ![c].pend = TryCompletion(c, v)]
                         /\ hist' = [hist EXCEPT ![c].ret = v]
                         /\ pc' = [pc EXCEPT ![c] = "release"]
                         /\ UNCHANGED result
    /\ UNCHANGED <<istate, life, req, ctx, outcome, trace>>

ReleaseError == Error("ReleaseError", FALSE)

\* Faulty variant: release(ctx) rethrows what a hook threw.
ReleaseCompletionRethrow(pend, ok) == IF ok THEN pend ELSE Rejected(ReleaseError)

\* What release(ctx) does to the pending completion when a hook returned
\* (ok) or threw: the catch block logs and drops the error.
ReleaseCompletion(pend, ok) == pend

\* Faulty variant: a throwing hook ends the loop of release(ctx).
ReleaseStopsOnThrow(i, ok) == ok /\ i < Len(ServiceIds)

\* The loop of release(ctx) goes on to the next service, whether the hook of
\* service i returned (ok) or threw.
ReleaseContinues(i, ok) == i < Len(ServiceIds)

\* One iteration of the loop of release(ctx); after the last one the inner
\* finally block ends and the pending completion takes effect: a rejection
\* leaves the method, anything else lets eventRequest go on to the next
\* target.
release(c) ==
    /\ pc[c] = "release"
    /\ LET sid == ServiceIds[loc[c].i] IN
         \E ok \in (IF HasRelease(sid) THEN BOOLEAN ELSE {TRUE}) :
           /\ trace' = IF HasRelease(sid)
                         THEN [trace EXCEPT ![c] = Append(@, Ev("release", loc[c].t, sid, 0))]
                         ELSE trace
           /\ hist' = IF ok THEN hist ELSE [hist EXCEPT ![c].rel = @ \cup {loc[c].t}]
           /\ IF ReleaseContinues(loc[c].i, ok)
                THEN /\ loc' = [loc EXCEPT ![c].i = @ + 1,
                                           ![c].pend = ReleaseCompletion(@, ok)]
                     /\ UNCHANGED <<istate, pc, outcome>>
                ELSE IF /\ req[c].kind = "event"
                        /\ ReleaseCompletion(loc[c].pend, ok).type # "rejected"
                       THEN /\ loc' = [loc EXCEPT ![c].i = 1, ![c].k = 1,
                                                  ![c].t = NextTarget(@)]
                            /\ pc' = [pc EXCEPT ![c] = "target"]
                            /\ UNCHANGED <<istate, outcome>>
                       ELSE /\ finish(c, ReleaseCompletion(loc[c].pend, ok))
                            /\ loc' = [loc EXCEPT ![c].i = 1]
    /\ UNCHANGED <<life, req, ctx, result>>

\* The caller has taken the settled promise; it may issue another call.
settle(c) ==
    /\ pc[c] = "done"
    /\ pc' = [pc EXCEPT ![c] = "idle"]
    /\ req' = [req EXCEPT ![c] = NoRequest]
    /\ loc' = [loc EXCEPT ![c] = NoLocals]
    /\ ctx' = [ctx EXCEPT ![c] = NoContext]
    /\ result' = [result EXCEPT ![c] = NoValue]
    /\ outcome' = [outcome EXCEPT ![c] = Unsettled]
    /\ trace' = [trace EXCEPT ![c] = <<>>]
    /\ hist' = [hist EXCEPT ![c] = NoHistory]
    /\ UNCHANGED <<istate, life>>

\* ---------------------------------------------------------- specification
Next ==
    \/ register
    \/ publish
    \/ prepare
    \/ taken
    \/ \E c \in Callers : remoteRequest(c)
    \/ \E c \in Callers : eventRequest(c)
    \/ \E c \in Callers : httpRequest(c)
    \/ \E c \in Callers : remoteResolve(c)
    \/ \E c \in Callers : eventResolve(c)
    \/ \E c \in Callers : httpResolve(c)
    \/ \E c \in Callers : eventTarget(c)
    \/ \E c \in Callers : authReturn(c)
    \/ \E c \in Callers : activate(c)
    \/ \E c \in Callers : invoke(c)
    \/ \E c \in Callers : handlerReturn(c)
    \/ \E c \in Callers : release(c)
    \/ \E c \in Callers : settle(c)

Spec == Init /\ [][Next]_vars

\* The steps of an admitted call: the continuation after each await runs
\* once the awaited call has returned or thrown.
Step(c) ==
    \/ remoteResolve(c) \/ eventResolve(c) \/ httpResolve(c)
    \/ eventTarget(c) \/ authReturn(c) \/ activate(c)
    \/ invoke(c) \/ handlerReturn(c) \/ release(c)

\* Every external call eventually returns or throws, and the event loop
\* runs every continuation that is ready.
FairSpec == Spec /\ \A c \in Callers : WF_vars(Step(c))

TypeOK ==
    /\ istate \in {"Pending", "Ready", "Reserved", "Busy"}
    /\ \A c \in Callers :
         pc[c] \in {"idle", "resolve", "target", "auth", "activate", "invoke",
                    "handler", "release", "done"}

\* ============================================================== properties
InFlight == {c \in Callers : pc[c] \notin {"idle", "done"}}
IsHandler(ev) == ev.e \in {"handler", "adapter"}

\* C1: a call of remoteRequest, eventRequest or httpRequest that was admitted
\* (istate was Ready at its guard) leaves istate Ready when it completes,
\* whatever its outcome.
C1_ReadyAfterCompletion ==
    [][\A c \in Callers :
         (pc[c] \notin {"idle", "done"} /\ pc'[c] = "done") => istate' = "Ready"]_vars

\* A call whose handler threw and one of whose release hooks threw has
\* completed, and the container is Ready.
C1_Witness ==
    \E c \in Callers :
        /\ pc[c] = "done"
        /\ outcome[c].err.kind = "HandlerError"
        /\ hist[c].rel # {}
        /\ istate = "Ready"

\* C2: a call issued while istate is Pending, Reserved or Busy is rejected
\* with a state error in the same step, leaves istate as it was and makes no
\* external call (no lookup, auth, hook or handler).
C2_RejectedWhenNotReady ==
    [][\A c \in Callers :
         (pc[c] = "idle" /\ pc'[c] # "idle" /\ istate # "Ready") =>
            /\ pc'[c] = "done"
            /\ outcome'[c] = Rejected(StateError)
            /\ istate' = istate
            /\ trace'[c] = <<>>
            /\ hist'[c] = NoHistory]_vars

\* An HTTP call was rejected while another call stands in its activation
\* pass with the container Busy.
C2_Witness ==
    \E c, d \in Callers :
        /\ pc[c] = "done" /\ req[c].kind = "http"
        /\ outcome[c] = Rejected(StateError)
        /\ pc[d] = "activate"
        /\ istate = "Busy"

\* C3: at most one call is past the guard at any time; a call arriving while
\* another is in flight completes at once with a state error, and neither
\* istate nor anything of the call in flight changes in that step.
C3_SingleFlight ==
    /\ [](Cardinality(InFlight) <= 1)
    /\ [][\A c \in Callers :
            (pc[c] = "idle" /\ pc'[c] # "idle" /\ InFlight # {}) =>
               /\ pc'[c] = "done"
               /\ outcome'[c].err = StateError
               /\ istate' = istate
               /\ \A d \in InFlight :
                    /\ pc'[d] = pc[d] /\ req'[d] = req[d] /\ loc'[d] = loc[d]
                    /\ result'[d] = result[d] /\ trace'[d] = trace[d]
                    /\ outcome'[d] = outcome[d]]_vars

\* A remote call was rejected while an event call waits for the handler of
\* its second record.
C3_Witness ==
    \E c, d \in Callers :
        /\ pc[c] = "done" /\ req[c].kind = "remote"
        /\ outcome[c].err = StateError
        /\ pc[d] = "handler" /\ req[d].kind = "event" /\ loc[d].k = 2

\* C4: whenever a handler (remote method, event handler or adapter, HTTP
\* handler or adapter) is being invoked, istate is Busy.
C4_HandlerOnlyWhileBusy ==
    \A c \in Callers : pc[c] = "handler" => istate = "Busy"

\* An event adapter is being invoked.
C4_Witness ==
    \E c \in Callers :
        /\ pc[c] = "handler"
        /\ trace[c][Len(trace[c])].e = "adapter"
        /\ istate = "Busy"

\* C5: within a request (for events: within a target) no activate hook is
\* called after the handler, no handler or activate hook is called after a
\* release hook, and while the handler has not returned nothing else has
\* been called after it.
C5_LifecycleOrder ==
    \A c \in Callers :
        LET tr == trace[c] IN
        /\ \A a, b \in 1..Len(tr) :
             (a < b /\ tr[a].t = tr[b].t) =>
                /\ ~(IsHandler(tr[a]) /\ tr[b].e = "activate")
                /\ ~(tr[a].e = "release" /\ (IsHandler(tr[b]) \/ tr[b].e = "activate"))
        /\ pc[c] = "handler" => IsHandler(tr[Len(tr)])

\* The second target of an event was activated, handled two records and was
\* released.
C5_Witness ==
    \E c \in Callers :
        LET tr == trace[c] IN
        /\ pc[c] = "done"
        /\ \E a, b, d, e \in 1..Len(tr) :
             /\ a < b /\ b < d /\ d < e
             /\ tr[a].t = 2 /\ tr[a].e = "activate"
             /\ tr[b].t = 2 /\ IsHandler(tr[b]) /\ tr[b].k = 1
             /\ tr[d].t = 2 /\ IsHandler(tr[d]) /\ tr[d].k = 2
             /\ tr[e].t = 2 /\ tr[e].e = "release"

\* ------------------------------------------------------------ C6 .. C10
\* The calls of kind e made for target t, as positions of the trace.
Calls(c, t, es) == {a \in 1..Len(trace[c]) : trace[c][a].t = t /\ trace[c][a].e \in es}
\* The release pass of target t (0: the call itself) has ended.
Released(c, t) == pc[c] = "done" \/ (req[c].kind = "event" /\ loc[c].t > t)
ReleaseServices == {ServiceIds[i] : i \in {j \in 1..Len(ServiceIds) : HasRelease(ServiceIds[j])}}
\* Every release hook was called once for target t.
ReleasedAll(c, t) ==
    \A sid \in ReleaseServices :
        Cardinality({a \in Calls(c, t, {"release"}) : trace[c][a].s = sid}) = 1
\* The entries of returns that belong to target t of the resolved route.
Entries(c, t) ==
    {a \in 1..Len(result[c].returns) : result[c].returns[a].service = Targets(c)[t].service}
HasError(returns) == \E a \in 1..Len(returns) : returns[a].error # NoError

\* C6 as stated: when an activate hook threw, no handler ran, every release
\* hook ran, and the call rejects with the activation error.
C6_ActivationFailureRejects ==
    \A c \in Callers :
        (pc[c] = "done" /\ hist[c].act # {}) =>
            /\ \A t \in hist[c].act :
                 Calls(c, t, {"handler", "adapter"}) = {} /\ ReleasedAll(c, t)
            /\ outcome[c].type = "rejected"
            /\ outcome[c].err.kind = "ActivationError"

\* C6 amended: when an activate hook threw, the handler is not invoked for
\* that request (events: that target) and every release hook is still called
\* once; a remote call rejects with the activation error and an HTTP call with
\* the activation error wrapped; an event call does not reject because of it:
\* the wrapped activation error becomes an error entry of that target and the
\* status is FAILED.
C6_ActivationFailure ==
    \A c \in Callers : \A t \in hist[c].act :
        /\ Calls(c, t, {"handler", "adapter"}) = {}
        /\ Released(c, t) => ReleasedAll(c, t)
        /\ (pc[c] = "done" /\ req[c].kind = "remote") => outcome[c] = Rejected(ActivationError)
        /\ (pc[c] = "done" /\ req[c].kind = "http") => outcome[c] = Rejected(Wrap(ActivationError))
        /\ req[c].kind = "event" =>
             /\ result[c].status = "FAILED"
             /\ \E a \in Entries(c, t) :
                  /\ result[c].returns[a].error = Wrap(ActivationError)
                  /\ result[c].returns[a].data = None
             /\ pc[c] = "done" => outcome[c].err.kind # "ActivationError"
             /\ (pc[c] = "done" /\ outcome[c].type = "returned") =>
                  outcome[c].value.status = "FAILED"

\* The activation of the first target of an event threw; the call returned
\* FAILED with that error entry followed by a success entry of the second
\* target.
C6_Witness ==
    \E c \in Callers :
        /\ pc[c] = "done" /\ req[c].kind = "event"
        /\ hist[c].act = {1}
        /\ outcome[c].type = "returned"
        /\ Len(outcome[c].value.returns) >= 2
        /\ outcome[c].value.returns[1].error = Wrap(ActivationError)
        /\ outcome[c].value.returns[2].error = NoError

\* C7: when a release hook threw and nothing else failed (no lookup, auth
\* call, activate hook or handler, nor the response normalization), the call returns
\* the handler's result (remote: the value itself; HTTP: the response holding
\* it; event: the EventResult with status OK, or NOP without records); no
\* call ever rejects with a release error and no entry carries one.
C7_ReleaseErrorSwallowed ==
    \A c \in Callers :
        pc[c] = "done" =>
            /\ outcome[c].err.kind # "ReleaseError"
            /\ \A a \in 1..Len(outcome[c].value.returns) :
                 outcome[c].value.returns[a].error.kind # "ReleaseError"
            /\ ( /\ hist[c].rel # {} /\ hist[c].act = {} /\ hist[c].hnd = {}
                 /\ outcome[c].err.kind \notin {"AuthError", "NotFound", "TypeError"} ) =>
                   /\ outcome[c].type = "returned"
                   /\ outcome[c].err = NoError
                   /\ req[c].kind = "remote" => outcome[c].value = RawValue(hist[c].ret)
                   /\ req[c].kind = "http" =>
                        /\ outcome[c].value.data = hist[c].ret
                        /\ outcome[c].value.shape \in {"http", "raw"}
                   /\ req[c].kind = "event" =>
                        /\ ~HasError(outcome[c].value.returns)
                        /\ outcome[c].value.status =
                             IF outcome[c].value.returns = <<>> THEN "NOP" ELSE "OK"

\* A remote call whose handler returned v2 and whose release hook threw
\* returned v2.
C7_Witness ==
    \E c \in Callers :
        /\ pc[c] = "done" /\ req[c].kind = "remote"
        /\ hist[c].rel # {}
        /\ outcome[c] = Returned(RawValue("v2"))

\* An admitted event request neither of whose route keys is registered.
Unrouted(c) ==
    /\ req[c].kind = "event" /\ req[c].source # None
    /\ <<req[c].source, req[c].resource>> \notin EventRoutes
    /\ <<req[c].source, ConfigResources(req[c].resource)>> \notin EventRoutes

\* C8 as stated: an event request neither of whose route keys has a
\* registration returns status NOP with empty returns.
C8_UnroutedEventIsNop ==
    \A c \in Callers :
        (pc[c] = "done" /\ Unrouted(c)) =>
            /\ outcome[c].type = "returned"
            /\ outcome[c].value.status = "NOP"
            /\ outcome[c].value.returns = <<>>

\* C8 amended: an event request neither of whose route keys has a
\* registration is rejected with NotFound; no EventResult is built or
\* returned and no external call is made.
C8_UnroutedEventNotFound ==
    \A c \in Callers :
        (pc[c] = "done" /\ Unrouted(c)) =>
            /\ outcome[c] = Rejected(NotFound)
            /\ result[c] = NoValue
            /\ trace[c] = <<>>

\* An event request for the unregistered resource "none" has completed.
C8_Witness ==
    \E c \in Callers :
        /\ pc[c] = "done" /\ Unrouted(c)
        /\ req[c].resource = "none"
        /\ outcome[c].err = NotFound

\* The registration index of the target an entry of returns belongs to.
TargetIndex(c, entry) ==
    CHOOSE t \in 1..Len(Targets(c)) : Targets(c)[t].service = entry.service

\* C9: the status of an EventResult is a function of its returns: FAILED iff
\* some entry has an error, OK iff there are entries and none has an error,
\* NOP iff there are none; while the result is built an error entry keeps the
\* status FAILED whatever follows; entries stand in target-registration order.
C9_StatusFromReturns ==
    \A c \in Callers :
        /\ (req[c].kind = "event" /\ result[c].shape = "event") =>
             LET rs == result[c].returns IN
             /\ HasError(rs) <=> result[c].status = "FAILED"
             /\ result[c].status = "OK" => (rs # <<>> /\ ~HasError(rs))
             /\ \A a, b \in 1..Len(rs) :
                  a < b => TargetIndex(c, rs[a]) <= TargetIndex(c, rs[b])
        /\ (pc[c] = "done" /\ outcome[c].value.shape = "event") =>
             LET v == outcome[c].value IN
             /\ v.status \in {"OK", "FAILED", "NOP"}
             /\ v.status = "FAILED" <=> HasError(v.returns)
             /\ v.status = "OK" <=> (v.returns # <<>> /\ ~HasError(v.returns))
             /\ v.status = "NOP" <=> v.returns = <<>>
             /\ v.returns = result[c].returns

\* Target s1 handled its one record and target s3 threw: FAILED, with the
\* success entry of s1 followed by the error entry of s3.
C9_Witness ==
    \E c \in Callers :
        /\ pc[c] = "done" /\ outcome[c].type = "returned"
        /\ outcome[c].value.status = "FAILED"
        /\ Len(outcome[c].value.returns) = 2
        /\ outcome[c].value.returns[1].service = "s1"
        /\ outcome[c].value.returns[1].error = NoError
        /\ outcome[c].value.returns[2].service = "s3"
        /\ outcome[c].value.returns[2].error = Wrap(HandlerError)

\* Target t was matched and its activation pass succeeded.
Activated(c, t) == Calls(c, t, {"activate"}) # {} /\ t \notin hist[c].act

Matched(c, u) ==
    /\ wildcardMatch(Targets(c)[u].actionFilter, req[c].action)
    /\ wildcardMatch(Targets(c)[u].objectFilter, req[c].object)
\* The activate hooks: the services that have one.
ActivateServices == {ServiceIds[i] : i \in {j \in 1..Len(ServiceIds) : HasActivate(ServiceIds[j])}}
\* The calls other than the container lookup.
External(c) == {a \in 1..Len(trace[c]) : trace[c][a].e # "get"}

\* C11: in eventRequest a handler or activate-hook failure in one matched
\* target does not stop the later targets.  The loop always goes past the
\* failed target, the call is never rejected with that target's error, and
\* every later matched target the loop has passed was authenticated,
\* activated, invoked for its records (when its activation succeeded) and
\* released by every release hook, its entries standing after the error
\* entry of the failed target.
C11_FailureDoesNotStopLaterTargets ==
    \A c \in Callers :
        req[c].kind = "event" =>
            \A t \in hist[c].act \cup hist[c].hnd :
                /\ (pc[c] = "done") => loc[c].t > t
                /\ outcome[c].type = "rejected" => outcome[c].err \in {NotFound, AuthError}
                /\ \A u \in (t + 1)..Len(Targets(c)) :
                     (Matched(c, u) /\ loc[c].t > u) =>
                        /\ Calls(c, u, {"auth"}) # {}
                        /\ Calls(c, u, {"activate"}) # {}
                        /\ Activated(c, u) =>
                              /\ {trace[c][a].s : a \in Calls(c, u, {"activate"})} = ActivateServices
                              /\ req[c].nrec > 0 => Calls(c, u, {"handler", "adapter"}) # {}
                              /\ u \notin hist[c].hnd =>
                                    Cardinality(Calls(c, u, {"handler", "adapter"})) = req[c].nrec
                        /\ ReleasedAll(c, u)
                        /\ Cardinality(Entries(c, u)) =
                              IF u \in hist[c].act THEN 1
                              ELSE Cardinality(Calls(c, u, {"handler", "adapter"}))
                        /\ \A a \in Entries(c, t), b \in Entries(c, u) : a < b

\* The handler of the first target threw on the only record; the second
\* target was then authenticated, activated, invoked and released, and its
\* success entry follows the error entry.
C11_Witness ==
    \E c \in Callers :
        /\ pc[c] = "done" /\ req[c].kind = "event" /\ req[c].nrec = 1
        /\ hist[c].hnd = {1} /\ hist[c].act = {} /\ hist[c].rel = {}
        /\ Calls(c, 2, {"auth"}) # {} /\ Calls(c, 2, {"adapter"}) # {}
        /\ ReleasedAll(c, 2)
        /\ outcome[c].type = "returned"
        /\ Len(outcome[c].value.returns) = 2
        /\ outcome[c].value.returns[1].error = Wrap(HandlerError)
        /\ outcome[c].value.returns[2].service = "s3"
        /\ outcome[c].value.returns[2].error = NoError

\* The route of an event request has resolved to a registration list.
Routed(c) == req[c].kind = "event" /\ loc[c].route # None
\* Target t reported an error entry in the returns of value v.
Reported(c, t, v) ==
    \E a \in 1..Len(v.returns) :
        /\ v.returns[a].service = Targets(c)[t].service
        /\ v.returns[a].error # NoError

\* C12: once the route of an event request has resolved, eventRequest never
\* rejects the whole call because of a per-target failure: the call returns
\* an EventResult, in which every target whose service is missing, whose
\* eventAuth call failed, whose activation failed or whose handler threw has
\* an error entry.
C12_EventFailuresAreEntries ==
    \A c \in Callers :
        (pc[c] = "done" /\ Routed(c)) =>
            /\ outcome[c].type = "returned"
            /\ outcome[c].value.shape = "event"
            /\ \A t \in hist[c].auth \cup hist[c].act \cup hist[c].hnd :
                 Reported(c, t, outcome[c].value)
            /\ \A t \in 1..Len(Targets(c)) :
                 (Matched(c, t) /\ ~ContainerGet(Targets(c)[t].service)) =>
                     Reported(c, t, outcome[c].value)

\* The eventAuth call of the second target failed after the first target
\* was handled: the call is rejected with the auth error and the entry of
\* the first target is lost with the result.
C12_Witness ==
    \E c \in Callers :
        /\ pc[c] = "done" /\ Routed(c)
        /\ hist[c].auth = {2}
        /\ Len(result[c].returns) = 1
        /\ outcome[c] = Rejected(AuthError)

\* C13: an event request whose route is registered but none of whose
\* targets passes both filters returns an EventResult with status NOP and
\* empty returns; no auth call, hook or handler is invoked.
C13_NoMatchIsNop ==
    \A c \in Callers :
        (/\ pc[c] = "done" /\ Routed(c)
         /\ \A u \in 1..Len(Targets(c)) : ~Matched(c, u)) =>
            /\ outcome[c] = Returned(EventResult("NOP", <<>>))
            /\ External(c) = {}

\* No target of route "q broken" matches action "del", and the service of
\* its second registration is not in the container: the call is rejected
\* with NotFound.
C13_Witness ==
    \E c \in Callers :
        /\ pc[c] = "done" /\ Routed(c)
        /\ req[c].resource = "broken" /\ req[c].action = "del"
        /\ \A u \in 1..Len(Targets(c)) : ~Matched(c, u)
        /\ outcome[c] = Rejected(NotFound)
        /\ External(c) = {}

\* C14: a remote request whose application differs from that of the
\* instance fails with NotFound, and neither the container lookup nor any
\* auth call, hook or handler is made for it.
C14_ApplicationMismatch ==
    \A c \in Callers :
        (req[c].kind = "remote" /\ req[c].service # None
         /\ req[c].application # application) =>
            /\ pc[c] \in {"resolve", "done"}
            /\ trace[c] = <<>>
            /\ istate # "Busy"
            /\ pc[c] = "done" => outcome[c] = Rejected(NotFound)

\* A remote request for application "other", naming a registered service
\* and method, was rejected.
C14_Witness ==
    \E c \in Callers :
        /\ pc[c] = "done" /\ req[c].kind = "remote"
        /\ req[c].application = "other"
        /\ req[c].service = "s1" /\ req[c].method = "m1"
        /\ outcome[c] = Rejected(NotFound)
        /\ trace[c] = <<>>

\* The registration an http request resolved to.
HttpMethod(c) == MetadataRoutes(HttpRoute(req[c]))
\* The response without its Token header.
Headerless(v) == [v EXCEPT !.token = None]

\* C15: in httpRequest a method declared with the raw-response content type
\* returns the handler's value as the response, unwrapped; with any other
\* declared content type, or none (application/json), the response is
\* {statusCode: declared code, body: handler value, contentType}.
C15_ResponseNormalization ==
    \A c \in Callers :
        (pc[c] = "done" /\ req[c].kind = "http" /\ outcome[c].type = "returned") =>
            LET v == Headerless(outcome[c].value) IN
            IF HttpMethod(c).contentType = "HttpResponse"
              THEN v = RawValue(hist[c].ret)
              ELSE /\ v.shape = "http"
                   /\ v.statusCode = HttpMethod(c).code
                   /\ v.data = hist[c].ret
                   /\ v.contentType = IF HttpMethod(c).contentType = None
                                         THEN "application/json"
                                         ELSE HttpMethod(c).contentType

\* The raw route "GET /a:dm" returned the handler's value as it was.
C15_Witness ==
    \E c \in Callers :
        /\ pc[c] = "done" /\ req[c].kind = "http"
        /\ req[c].resource = "/a" /\ req[c].domainModel = "dm"
        /\ hist[c].ret = "v2"
        /\ outcome[c].type = "returned"
        /\ outcome[c].value.shape = "raw"
        /\ outcome[c].value.data = "v2"

\* C16: in httpRequest the response carries the Token header with the new
\* token whenever the Context of httpAuth reports a renewed token, and no
\* Token header otherwise; the header is set on the normalized response,
\* whose statusCode, body and contentType it leaves as they were.
C16_TokenHeader ==
    \A c \in Callers :
        (pc[c] = "done" /\ req[c].kind = "http" /\ outcome[c].type = "returned") =>
            LET v == outcome[c].value IN
            /\ v.token = IF ctx[c].renewed THEN ctx[c].token ELSE None
            /\ v.data = hist[c].ret
            /\ v.shape = "http" =>
                  /\ v.statusCode = HttpMethod(c).code
                  /\ v.contentType \in {"application/json", "text/plain"}
            /\ v.shape = "raw" <=> HttpMethod(c).contentType = "HttpResponse"

\* The Context reported the renewed token "tok" and the wrapped response of
\* "GET /t" carries it.
C16_Witness ==
    \E c \in Callers :
        /\ pc[c] = "done" /\ req[c].kind = "http" /\ req[c].resource = "/t"
        /\ ctx[c] = Context(TRUE, "tok")
        /\ outcome[c].type = "returned"
        /\ outcome[c].value.token = "tok"
        /\ outcome[c].value.statusCode = 202
        /\ outcome[c].value.contentType = "text/plain"

\* C17: prepare succeeds only in state Pending and then sets Ready; in any
\* other state it fails with a state error and leaves the state as it was;
\* a prepare failing its configuration or security check leaves Pending;
\* and no step other than a successful prepare leaves Pending.
C17_PrepareOnlyFromPending ==
    [][ /\ (life' # life /\ life'.op = "prepare") =>
             IF istate = "Pending"
               THEN \/ life'.res = "ok" /\ istate' = "Ready"
                    \/ life'.res = "ConfigError" /\ istate' = "Pending"
               ELSE life'.res = "StateError" /\ istate' = istate
        /\ (istate = "Pending" /\ istate' # "Pending") =>
             /\ life' = [op |-> "prepare", res |-> "ok"]
             /\ istate' = "Ready" ]_vars

\* prepare was called while a request was in flight and failed with a state
\* error, the state still Busy.
C17_Witness ==
    /\ life = [op |-> "prepare", res |-> "StateError"]
    /\ istate = "Busy"
    /\ \E c \in Callers : pc[c] \in {"activate", "handler", "release"}

\* C18: release(ctx) is best-effort: a throwing release hook does not keep
\* the hooks of the remaining services from being called.  Every release
\* pass that has ended called the release hook of every service that has
\* one exactly once, no pass calls a hook twice, and no error of a hook
\* reaches the caller.
C18_ReleaseBestEffort ==
    \A c \in Callers :
        \A t \in 0..Len(Targets(c)) :
            LET rs == Calls(c, t, {"release"}) IN
            /\ \A a, b \in rs : trace[c][a].s = trace[c][b].s => a = b
            /\ (rs # {} /\ Released(c, t)) => ReleasedAll(c, t)
            /\ (t \in hist[c].rel /\ Released(c, t)) =>
                  /\ ReleasedAll(c, t)
                  /\ outcome[c].err # ReleaseError

\* A release hook threw during the release pass of an http request and
\* both release hooks (s1, s3) were called, s1 before s3.
C18_Witness ==
    \E c \in Callers :
        /\ pc[c] = "done" /\ req[c].kind = "http"
        /\ hist[c].rel = {0}
        /\ \E a, b \in Calls(c, 0, {"release"}) :
             a < b /\ trace[c][a].s = "s1" /\ trace[c][b].s = "s3"
        /\ outcome[c].type = "returned"

\* C19: in remoteRequest and httpRequest a failing auth call aborts the
\* request before activation: the call is rejected with the auth error, no
\* activate hook, handler, adapter or release hook was called, and the
\* state is Ready again.
C19_AuthFailureAborts ==
    \A c \in Callers :
        (req[c].kind \in {"remote", "http"} /\ hist[c].auth # {}) =>
            /\ pc[c] = "done"
            /\ outcome[c] = Rejected(AuthError)
            /\ Calls(c, 0, {"activate", "handler", "adapter", "release"}) = {}
            /\ Calls(c, 0, {"auth"}) # {}
            /\ istate = "Ready"

\* The httpAuth call of a request for "GET /a" failed.
C19_Witness ==
    \E c \in Callers :
        /\ pc[c] = "done" /\ req[c].kind = "http" /\ req[c].resource = "/a"
        /\ hist[c].auth = {0}
        /\ outcome[c] = Rejected(AuthError)
        /\ Cardinality(External(c)) = 1

\* C20: event route resolution uses the direct key when it is registered
\* and the alias key only when it is not; eventRequest fails with NotFound
\* exactly when neither key is registered, and then no auth call, hook or
\* handler runs and the state never becomes Busy.
C20_EventRouteResolution ==
    \A c \in Callers :
        (req[c].kind = "event" /\ req[c].source # None) =>
            /\ Routed(c) =>
                  /\ <<req[c].source, loc[c].route>> \in EventRoutes
                  /\ loc[c].route = IF <<req[c].source, req[c].resource>> \in EventRoutes
                                       THEN req[c].resource
                                       ELSE ConfigResources(req[c].resource)
            /\ Unrouted(c) =>
                  /\ pc[c] \in {"resolve", "done"}
                  /\ External(c) = {}
                  /\ istate # "Busy"
            /\ pc[c] = "done" => (outcome[c].err = NotFound <=> Unrouted(c))

\* The route "q gone" is registered, and the call was rejected with
\* NotFound: the service of its registration is not in the container.
C20_Witness ==
    \E c \in Callers :
        /\ pc[c] = "done" /\ Routed(c) /\ ~Unrouted(c)
        /\ req[c].resource = "gone"
        /\ outcome[c] = Rejected(NotFound)

\* ----------------------------------------------------------- C21 .. C30
\* The key "{httpMethod} {resource}[:{domainModel}]" of an admitted http
\* request, read off the request.
RouteKey(c) == <<req[c].httpMethod, req[c].resource, req[c].domainModel>>
AdmittedHttp(c) == req[c].kind = "http" /\ req[c].httpMethod # None

\* C21: http route resolution uses the key "{httpMethod} {resource}" when
\* the content type declares no domain model and the key with the suffix
\* ":{domainModel}" when it does.  The request is dispatched to the handler
\* registered under that key, as that registration says (adapter or not);
\* when the key is unregistered the request fails with NotFound, no call
\* made, also when the unsuffixed key is registered.
C21_HttpRouteKey ==
    \A c \in Callers :
        AdmittedHttp(c) =>
            /\ \A a \in Calls(c, 0, {"handler", "adapter"}) :
                 /\ RouteKey(c) \in HttpRoutes
                 /\ trace[c][a].s = MetadataRoutes(RouteKey(c)).service
                 /\ trace[c][a].e = "adapter" <=> MetadataRoutes(RouteKey(c)).adapter
            /\ RouteKey(c) \notin HttpRoutes =>
                 /\ pc[c] \in {"resolve", "done"}
                 /\ trace[c] = <<>>
                 /\ pc[c] = "done" => outcome[c] = Rejected(NotFound)
            /\ (pc[c] = "done" /\ outcome[c].type = "returned") =>
                 Cardinality(Calls(c, 0, {"handler", "adapter"})) = 1

\* "GET /a" with domain model "dm" was dispatched to the adapter of s3, the
\* registration of "GET /a:dm", not to s1 of "GET /a".
C21_Witness ==
    \E c \in Callers :
        /\ pc[c] = "done" /\ AdmittedHttp(c)
        /\ req[c].resource = "/a" /\ req[c].domainModel = "dm"
        /\ outcome[c].type = "returned"
        /\ \E a \in Calls(c, 0, {"adapter"}) : trace[c][a].s = "s3"
        /\ Calls(c, 0, {"handler"}) = {}

\* The error an http call raised inside its inner try block, if any.
HttpTryError(c) ==
    IF 0 \in hist[c].act THEN ActivationError
    ELSE IF 0 \in hist[c].hnd THEN HandlerError
    ELSE IF /\ hist[c].ret = Undefined
            /\ MetadataRoutes(RouteKey(c)).contentType = "HttpResponse"
            /\ ctx[c].renewed /\ ctx[c].token # None THEN TypeError
    ELSE NoError

\* C22: in httpRequest an error raised after httpAuth succeeded (by an
\* activate hook, by the adapter or handler, or while the response is
\* normalized) reaches the caller wrapped as an internal error whose cause
\* is that error, never as the error itself.
C22_HttpErrorsWrapped ==
    \A c \in Callers :
        (pc[c] = "done" /\ AdmittedHttp(c) /\ Calls(c, 0, {"activate"}) # {}) =>
            IF HttpTryError(c) # NoError
              THEN /\ outcome[c].type = "rejected"
                   /\ outcome[c].err.wrapped
                   /\ outcome[c].err = Wrap(HttpTryError(c))
              ELSE outcome[c].type = "returned"

\* The handler of the raw route returned nothing and the Context carried a
\* renewed token: setting the Token header threw, and the caller received
\* the TypeError wrapped.
C22_Witness ==
    \E c \in Callers :
        /\ pc[c] = "done" /\ AdmittedHttp(c)
        /\ hist[c].act = {} /\ hist[c].hnd = {}
        /\ hist[c].ret = Undefined
        /\ outcome[c] = Rejected(Wrap(TypeError))

\* The auth call of target t (0: of a remote or http request) was made and
\* has returned a Context.
AuthOk(c, t) ==
    /\ Calls(c, t, {"auth"}) # {}
    /\ t \notin hist[c].auth
    /\ ~(pc[c] = "auth" /\ loc[c].t = t)

\* C23: activation and release passes are balanced.  For every request (for
\* an event: every target) a release pass runs exactly once if and only if
\* the auth call succeeded, whether activation failed, the handler threw or
\* the handler returned; no release hook is called when route resolution or
\* auth failed; a release hook is only called after the activation pass was
\* entered; and while a release pass runs the state is still Busy.
C23_ReleaseBalanced ==
    \A c \in Callers :
        /\ pc[c] \in {"activate", "invoke", "handler", "release"} => istate = "Busy"
        /\ \A t \in 0..Len(Targets(c)) :
             /\ Calls(c, t, {"release"}) # {} =>
                   /\ AuthOk(c, t)
                   /\ Calls(c, t, {"activate"}) # {}
                   /\ \A a \in Calls(c, t, {"activate", "handler", "adapter"}),
                         b \in Calls(c, t, {"release"}) : a < b
             /\ Released(c, t) =>
                   IF AuthOk(c, t)
                     THEN ReleasedAll(c, t)
                     ELSE Calls(c, t, {"release", "activate", "handler", "adapter"}) = {}

\* An http call whose first activate hook threw was released by both
\* release hooks.
C23_Witness ==
    \E c \in Callers :
        /\ pc[c] = "done" /\ req[c].kind = "http"
        /\ hist[c].act = {0}
        /\ Cardinality(Calls(c, 0, {"activate"})) = 1
        /\ Calls(c, 0, {"handler", "adapter"}) = {}
        /\ ReleasedAll(c, 0)
        /\ istate = "Ready"

\* C24: the container state changes only along the edges Pending to Ready
\* (a successful prepare), Ready to Reserved (a request is admitted),
\* Reserved to Busy (its route has resolved), Reserved to Ready and Busy to
\* Ready (it completes).  Nothing leads back to Pending, Busy is not entered
\* from Ready, and Reserved to Ready happens only when route resolution
\* fails.
C24_StateEdges ==
    [][ istate' # istate =>
          \/ /\ istate = "Pending" /\ istate' = "Ready"
             /\ life' = [op |-> "prepare", res |-> "ok"]
          \/ /\ istate = "Ready" /\ istate' = "Reserved"
             /\ \E c \in Callers : pc[c] = "idle" /\ pc'[c] = "resolve"
          \/ /\ istate = "Reserved" /\ istate' = "Busy"
             /\ \E c \in Callers : pc[c] = "resolve" /\ pc'[c] \in {"auth", "target"}
          \/ /\ istate = "Reserved" /\ istate' = "Ready"
             /\ \E c \in Callers :
                  /\ pc[c] = "resolve" /\ pc'[c] = "done"
                  /\ outcome'[c] = Rejected(NotFound)
          \/ /\ istate = "Busy" /\ istate' = "Ready"
             /\ \E c \in Callers :
                  /\ pc[c] \in {"target", "auth", "release"} /\ pc'[c] = "done" ]_vars

\* A call went Ready, Reserved, Busy and back to Ready: its handler was
\* called and it has completed.
C24_Witness ==
    \E c \in Callers :
        /\ pc[c] = "done" /\ req[c].kind = "remote"
        /\ Calls(c, 0, {"handler"}) # {}
        /\ outcome[c].type = "returned"
        /\ istate = "Ready"

\* A piece of the route of an admitted remote or http request is missing.
ResolutionMissing(c) ==
    \/ /\ req[c].kind = "remote" /\ req[c].service # None
       /\ \/ req[c].application # application
          \/ req[c].service \notin ContainerIds
          \/ <<req[c].service, req[c].method>> \notin MethodIds
    \/ /\ AdmittedHttp(c)
       /\ \/ RouteKey(c) \notin HttpRoutes
          \/ MetadataRoutes(RouteKey(c)).service \notin ContainerIds

\* C25: in remoteRequest and httpRequest a missing piece of the route (the
\* application, the service, the method metadata; the http route, its
\* service) fails with NotFound while the state is Reserved: the state
\* never becomes Busy for that request and no auth call, hook or handler is
\* invoked.
C25_ResolutionFailure ==
    \A c \in Callers :
        ResolutionMissing(c) =>
            /\ pc[c] \in {"resolve", "done"}
            /\ External(c) = {}
            /\ pc[c] = "resolve" => istate = "Reserved"
            /\ pc[c] = "done" => (outcome[c] = Rejected(NotFound) /\ istate = "Ready")

\* A remote request for a registered service and an unknown method was
\* rejected after the container lookup, with no other call made.
C25_Witness ==
    \E c \in Callers :
        /\ pc[c] = "done" /\ req[c].kind = "remote"
        /\ req[c].application = application
        /\ req[c].service = "s1" /\ req[c].method = "nomethod"
        /\ outcome[c] = Rejected(NotFound)
        /\ Len(trace[c]) = 1 /\ trace[c][1].e = "get"

\* The place of a service in Metadata.services.
ServiceIndex(sid) == CHOOSE i \in 1..Len(ServiceIds) : ServiceIds[i] = sid
\* The activation pass of target t has ended.
ActivationEnded(c, t) ==
    /\ Calls(c, t, {"activate"}) # {}
    /\ ~(pc[c] = "activate" /\ loc[c].t = t)

\* C26: activate(ctx) calls the activate hook of every registered service
\* that has one, whichever service handles the request, one at a time in
\* registration order, each at most once; it is fail-fast: the step in
\* which a hook throws ends the pass, no later hook is called, and the
\* error reaches the caller of activate (the catch block of the request).
C26_ActivateAllFailFast ==
    /\ [](\A c \in Callers : \A t \in 0..Len(Targets(c)) :
            LET as == Calls(c, t, {"activate"}) IN
            /\ \A a, b \in as :
                 a < b => ServiceIndex(trace[c][a].s) < ServiceIndex(trace[c][b].s)
            /\ \A a \in as :
                 /\ HasActivate(trace[c][a].s)
                 /\ \A sid \in ActivateServices :
                      ServiceIndex(sid) < ServiceIndex(trace[c][a].s) =>
                          \E b \in as : b < a /\ trace[c][b].s = sid
            /\ (ActivationEnded(c, t) /\ t \notin hist[c].act) =>
                 {trace[c][a].s : a \in as} = ActivateServices
            /\ t \in hist[c].act =>
                 /\ ActivationEnded(c, t)
                 /\ Calls(c, t, {"handler", "adapter"}) = {})
    /\ [][\A c \in Callers :
            (pc[c] = "activate" /\ hist'[c].act # hist[c].act) =>
                /\ pc'[c] = "release"
                /\ Len(trace'[c]) = Len(trace[c]) + 1
                /\ IF req[c].kind = "event"
                     THEN result'[c].returns[Len(result'[c].returns)].error
                              = Wrap(ActivationError)
                     ELSE loc'[c].pend.err \in {ActivationError, Wrap(ActivationError)}]_vars

\* A remote request handled by s1 completed after the activate hooks of s1
\* and s3 were both called, in that order.
C26_Witness ==
    \E c \in Callers :
        /\ pc[c] = "done" /\ req[c].kind = "remote" /\ req[c].service = "s1"
        /\ hist[c].act = {}
        /\ \E a, b \in Calls(c, 0, {"activate"}) :
             a < b /\ trace[c][a].s = "s1" /\ trace[c][b].s = "s3"
        /\ Cardinality(Calls(c, 0, {"activate"})) = 2
        /\ outcome[c].type = "returned"

\* Every call of kinds es for target t precedes every call of kinds fs.
Precede(c, t, es, fs) ==
    \A a \in Calls(c, t, es), b \in Calls(c, t, fs) : a < b

\* C27: in eventRequest each matched target has its own lifecycle: one
\* eventAuth call, whose Context stays that of the target until its release
\* pass has ended, one activation pass, then its records, then one release
\* pass; and every call made for one target precedes every call made for
\* the next.  Targets that do not match get no eventAuth call.
C27_TargetLifecycle ==
    /\ [](\A c \in Callers : req[c].kind = "event" =>
            \A t \in 1..Len(Targets(c)) :
                /\ Cardinality(Calls(c, t, {"auth"})) <= 1
                /\ Calls(c, t, {"auth"}) # {} => Matched(c, t)
                /\ Calls(c, t, {"activate", "handler", "adapter", "release"}) # {}
                      => AuthOk(c, t)
                /\ \A a, b \in Calls(c, t, {"activate"}) :
                      trace[c][a].s = trace[c][b].s => a = b
                /\ Precede(c, t, {"auth"}, {"activate"})
                /\ Precede(c, t, {"activate"}, {"handler", "adapter"})
                /\ Precede(c, t, {"activate", "handler", "adapter"}, {"release"})
                /\ (Matched(c, t) /\ loc[c].t > t) =>
                      /\ Cardinality(Calls(c, t, {"auth"})) = 1
                      /\ AuthOk(c, t)
                      /\ Calls(c, t, {"activate"}) # {}
                      /\ ReleasedAll(c, t)
                /\ \A a, b \in 1..Len(trace[c]) :
                      (trace[c][a].t = t /\ trace[c][b].t > t) => a < b)
    /\ [][\A c \in Callers :
            (req[c].kind = "event"
             /\ pc[c] \in {"activate", "invoke", "handler", "release"}
             /\ pc'[c] \in {"activate", "invoke", "handler", "release"})
                => ctx'[c] = ctx[c]]_vars

\* The first target of route "q orders" was authenticated, activated,
\* invoked and released; the second was then authenticated, got a Context
\* of its own, was activated and invoked, and is being released.
C27_Witness ==
    \E c \in Callers :
        /\ req[c].kind = "event" /\ req[c].nrec = 1
        /\ pc[c] = "release" /\ loc[c].t = 2
        /\ ReleasedAll(c, 1)
        /\ Calls(c, 1, {"handler"}) # {} /\ Calls(c, 2, {"adapter"}) # {}
        /\ Cardinality(Calls(c, 2, {"auth"})) = 1
        /\ ctx[c] = Context(FALSE, "tok")
        /\ hist[c] = [NoHistory EXCEPT !.ret = "v1"]

\* The handler and adapter calls of a request, as positions of its trace.
HandlerCalls(c) == {a \in 1..Len(trace[c]) : IsHandler(trace[c][a])}
\* The entries of returns without an error.
Successes(c) == {a \in 1..Len(result[c].returns) : result[c].returns[a].error = NoError}

\* C28: in eventRequest the handler invocations are sequential and ordered:
\* targets in registration order and, within a target, records in list
\* order from the first on; an invocation starts only after the one before
\* it has returned or thrown (at most one is outstanding); and the success
\* entries of returns stand in that same (target, record) order, the j-th
\* entry of a target holding what the handler returned for record j.
C28_SequentialOrdered ==
    \A c \in Callers :
        req[c].kind = "event" =>
            /\ \A a, b \in HandlerCalls(c) :
                 a < b => \/ trace[c][a].t < trace[c][b].t
                          \/ /\ trace[c][a].t = trace[c][b].t
                             /\ trace[c][b].k - trace[c][a].k = b - a
            /\ \A a \in HandlerCalls(c) :
                 (\A b \in HandlerCalls(c) : b < a => trace[c][b].t < trace[c][a].t)
                     => trace[c][a].k = 1
            /\ Cardinality(HandlerCalls(c)) =
                 Cardinality(Successes(c)) + Cardinality(hist[c].hnd)
                   + (IF pc[c] = "handler" THEN 1 ELSE 0)
            /\ result[c].shape = "event" =>
                 \A t \in 1..Len(Targets(c)) :
                     LET es == Entries(c, t) \cap Successes(c) IN
                     \A a \in es :
                         /\ result[c].returns[a].data =
                               RecordData(Cardinality({b \in es : b <= a}))
                         /\ \A u \in (t + 1)..Len(Targets(c)) :
                               \A b \in Entries(c, u) : a < b

\* Two records went to two targets: four invocations, (1,1), (1,2), (2,1),
\* (2,2) in that order, and four success entries in the same order.
C28_Witness ==
    \E c \in Callers :
        /\ pc[c] = "done" /\ req[c].kind = "event" /\ req[c].nrec = 2
        /\ Cardinality(HandlerCalls(c)) = 4
        /\ outcome[c].type = "returned"
        /\ Len(outcome[c].value.returns) = 4
        /\ Cardinality(Successes(c)) = 4
        /\ outcome[c].value.returns[2].data = "v2"
        /\ outcome[c].value.returns[3].service = "s3"

\* C29: in eventRequest a registration whose action filter or object filter
\* does not match the request is silently skipped: no eventAuth call, no
\* hook, no handler call and no entry in returns is made for it, and it
\* causes no error, also when its service cannot be resolved from the
\* container: the call never ends at such a registration.
C29_UnmatchedTargetSkipped ==
    \A c \in Callers :
        Routed(c) =>
            \A t \in 1..Len(Targets(c)) :
                ~Matched(c, t) =>
                    /\ Calls(c, t, {"auth", "activate", "handler", "adapter", "release"}) = {}
                    /\ ~Reported(c, t, result[c])
                    /\ ~(pc[c] = "done" /\ outcome[c].type = "rejected" /\ loc[c].t = t)

\* The first target of route "q broken" handled the record of a "put"
\* event; the second registration does not match, its service is not in
\* the container, and the call was rejected with NotFound at it.
C29_Witness ==
    \E c \in Callers :
        /\ pc[c] = "done" /\ Routed(c)
        /\ req[c].resource = "broken" /\ req[c].action = "put" /\ req[c].nrec = 1
        /\ Len(result[c].returns) = 1
        /\ loc[c].t = 2 /\ ~Matched(c, 2)
        /\ outcome[c] = Rejected(NotFound)

\* C30: provided every external call eventually returns or throws, every
\* admitted request eventually completes with the state Ready, and the
\* state, once Reserved or Busy, eventually is Ready again, so that a later
\* request is admitted.
C30_RequestsComplete ==
    /\ \A c \in Callers :
         (pc[c] \notin {"idle", "done"}) ~> (pc[c] = "done" /\ istate = "Ready")
    /\ (istate \in {"Reserved", "Busy"}) ~> (istate = "Ready")

\* The longest call has completed: an event with the most records went
\* through both targets of its route, and the state is Ready.
C30_Witness ==
    \E c \in Callers :
        /\ pc[c] = "done" /\ req[c].kind = "event" /\ req[c].nrec = MaxRecords
        /\ outcome[c].type = "returned"
        /\ Len(outcome[c].value.returns) = 2 * MaxRecords
        /\ istate = "Ready"

\* ----------------------------------------------------------- C31 .. C33
\* An auth call, activate hook, handler or release hook of the request of c
\* is due or has not returned.
Outstanding(c) == pc[c] \in {"auth", "activate", "invoke", "handler", "release"}

\* C31: while an auth call, activate hook, handler or release hook of an
\* admitted request has not returned, the state is Busy; it stays Busy in
\* every step that is not a step of that request; every request issued in
\* that time is rejected with a state error in the step that issues it,
\* with no call made; and the request leaves that condition only by a step
\* of its own (a return or a throw of the awaited call): nothing else frees
\* the instance.
C31_BusyUntilReturn ==
    /\ [](\A c \in Callers : Outstanding(c) => istate = "Busy")
    /\ [][\A c \in Callers :
            Outstanding(c) =>
                /\ (pc'[c] # pc[c] \/ loc'[c] # loc[c] \/ trace'[c] # trace[c]) => Step(c)
                /\ ~Step(c) =>
                      /\ istate' = "Busy"
                      /\ Outstanding(c)'
                      /\ outcome'[c] = outcome[c]
                /\ \A d \in Callers \ {c} :
                      (pc[d] = "idle" /\ pc'[d] # "idle") =>
                          /\ pc'[d] = "done"
                          /\ outcome'[d] = Rejected(StateError)
                          /\ trace'[d] = <<>>]_vars

\* An event request was rejected with a state error while the auth call of
\* a remote request has not returned.
C31_Witness ==
    \E c, d \in Callers :
        /\ pc[c] = "auth" /\ req[c].kind = "remote"
        /\ pc[d] = "done" /\ req[d].kind = "event"
        /\ outcome[d] = Rejected(StateError)
        /\ istate = "Busy"

\* C32: httpRequest builds the arguments along exactly one of two paths.
\* On a route with an adapter the adapter is called once with the bound
\* handler, the Context, the request, the path parameters and the query
\* parameters; no binder and no handler is called by the dispatcher.
\* Otherwise the handler is called once with one argument per declared
\* binding, the i-th being the i-th binder applied to (Context, request)
\* or undefined where the binding has no binder; the binders are called in
\* order, before the handler, and the adapter is not called.
C32_ArgumentConstruction ==
    \A c \in Callers :
        (AdmittedHttp(c) /\ Calls(c, 0, {"handler", "adapter"}) # {}) =>
            LET target == MetadataRoutes(RouteKey(c))
                bindings == Bindings(RouteKey(c))
                bs == Calls(c, 0, {"binder"})
                a == hist[c].args
            IN
            /\ Cardinality(Calls(c, 0, {"handler", "adapter"})) = 1
            /\ IF target.adapter
                 THEN /\ Calls(c, 0, {"handler"}) = {}
                      /\ bs = {}
                      /\ a.callee = "adapter"
                      /\ a.bound = <<target.service, target.method>>
                      /\ a.context = ctx[c]
                      /\ a.request = req[c]
                      /\ a.path = IF PathParameters(req[c]) = None
                                    THEN "{}" ELSE PathParameters(req[c])
                      /\ a.query = IF QueryParameters(req[c]) = None
                                     THEN "{}" ELSE QueryParameters(req[c])
                 ELSE /\ Calls(c, 0, {"adapter"}) = {}
                      /\ a.callee = "handler"
                      /\ Len(a.argv) = Len(bindings)
                      /\ \A i \in 1..Len(bindings) :
                           /\ a.argv[i] = IF bindings[i] = None
                                             THEN Undefined
                                             ELSE Binder(bindings[i], ctx[c], req[c])
                           /\ Cardinality({b \in bs : trace[c][b].k = i}) =
                                 IF bindings[i] = None THEN 0 ELSE 1
                      /\ \A b \in bs :
                           /\ trace[c][b].s = bindings[trace[c][b].k]
                           /\ \A h \in Calls(c, 0, {"handler"}) : b < h
                           /\ \A d \in bs : b < d => trace[c][b].k < trace[c][d].k

\* The handler of "GET /a" was called with three arguments: the path, then
\* undefined for the binding without a binder, then the renewed token.
C32_Witness ==
    \E c \in Callers :
        /\ pc[c] = "done" /\ AdmittedHttp(c)
        /\ req[c].resource = "/a" /\ req[c].domainModel = None
        /\ ctx[c] = Context(TRUE, "tok")
        /\ hist[c].args.argv = <<"/a", Undefined, "tok">>
        /\ Cardinality(Calls(c, 0, {"binder"})) = 2
        /\ Cardinality(Calls(c, 0, {"handler"})) = 1
        /\ outcome[c].type = "returned"

\* C33: register() and publish() are accepted only while the state is
\* Pending: there they succeed and leave it Pending; in Ready, Reserved or
\* Busy, also while a request is in flight, they fail with a state error;
\* in no case do they change the state or anything of a request.
C33_RegisterPublishOnlyPending ==
    [][ (life' # life /\ life'.op \in {"register", "publish"}) =>
          /\ life'.res = IF istate = "Pending" THEN "ok" ELSE "StateError"
          /\ istate' = istate
          /\ pc' = pc /\ trace' = trace /\ outcome' = outcome ]_vars

\* register() was called while the handler of a request has not returned,
\* and failed with a state error; the state is still Busy.
C33_Witness ==
    /\ life = [op |-> "register", res |-> "StateError"]
    /\ istate = "Busy"
    /\ \E c \in Callers : pc[c] = "handler" /\ req[c].kind = "http"

====
